---------------------------- MODULE Spec2Model ----------------------------
(***************************************************************************)
(* ChessburgerBot: the statistics request of src/bot.js.                   *)
(*                                                                         *)
(* A chat command !daily / !weekly / !monthly / !yearly runs handleStats,  *)
(* which reads the clock, computes the window [periodStart, periodEnd] and *)
(* calls getStats.  getStats resolves the month buckets to fetch, awaits   *)
(* one HTTP fetch per bucket, merges the games and aggregates them.        *)
(*                                                                         *)
(* Instants are whole seconds since 1970-01-01T00:00:00Z.  The Date values *)
(* the code compares (periodStart, periodEnd, end_time * 1000) all have a  *)
(* zero millisecond part, and of `now` only the calendar fields are read.  *)
(* Strings are sequences of UTF-16 code units.                             *)
(***************************************************************************)
EXTENDS Integers, Sequences, FiniteSets, TLC

(***************************************************************************)
(* Bounds of the model.                                                    *)
(***************************************************************************)
\* first and last calendar year of the reference instants
FirstYear == 2024
LastYear == 2025
\* greatest number of game records the archive serves to one request
MaxGames == 2

(***************************************************************************)
(* ECMAScript Date arithmetic (what Date.UTC, getUTC*, setUTC* compute).   *)
(***************************************************************************)
SecPerDay == 86400

IsLeap(y) == (y % 4 = 0 /\ y % 100 # 0) \/ y % 400 = 0

\* DayFromYear of the ECMAScript specification
DayFromYear(y) ==
    365 * (y - 1970) + ((y - 1969) \div 4) - ((y - 1901) \div 100)
        + ((y - 1601) \div 400)

\* m in 1..12
DaysInMonth(y, m) ==
    IF m = 2 THEN (IF IsLeap(y) THEN 29 ELSE 28)
    ELSE IF m \in {4, 6, 9, 11} THEN 30 ELSE 31

RECURSIVE DaysBeforeMonth(_, _)
DaysBeforeMonth(y, m) ==
    IF m <= 1 THEN 0 ELSE DaysBeforeMonth(y, m - 1) + DaysInMonth(y, m - 1)

\* MakeDay: the month index (0-based) and the day may lie outside their ranges
MakeDay(year, monthIdx, date) ==
    LET ym == year + (monthIdx \div 12)
        mn == monthIdx % 12
    IN  DayFromYear(ym) + DaysBeforeMonth(ym, mn + 1) + date - 1

\* Date.UTC(year, monthIdx, date, h, mi, s), in seconds
DateUTC(year, monthIdx, date, h, mi, s) ==
    MakeDay(year, monthIdx, date) * SecPerDay + h * 3600 + mi * 60 + s

Day(t) == t \div SecPerDay

TimeWithinDay(t) == t % SecPerDay

\* the years the calendar fields are searched in
YearRange == (FirstYear - 2) .. (LastYear + 2)

getUTCFullYear(t) ==
    CHOOSE y \in YearRange : DayFromYear(y) <= Day(t) /\ Day(t) < DayFromYear(y + 1)

\* 0-based, as in JavaScript
getUTCMonth(t) ==
    LET y == getUTCFullYear(t)
        d == Day(t) - DayFromYear(y)
    IN  (CHOOSE m \in 1..12 :
            DaysBeforeMonth(y, m) <= d /\ d < DaysBeforeMonth(y, m) + DaysInMonth(y, m)) - 1

getUTCDate(t) ==
    LET y == getUTCFullYear(t)
    IN  Day(t) - DayFromYear(y) - DaysBeforeMonth(y, getUTCMonth(t) + 1) + 1

\* 0 = Sunday; 1970-01-01 was a Thursday
getUTCDay(t) == (Day(t) + 4) % 7

\* the instant after t.setUTCDate(date)
setUTCDate(t, date) ==
    MakeDay(getUTCFullYear(t), getUTCMonth(t), date) * SecPerDay + TimeWithinDay(t)

\* the instant after t.setUTCMonth(monthIdx)
setUTCMonth(t, monthIdx) ==
    MakeDay(getUTCFullYear(t), monthIdx, getUTCDate(t)) * SecPerDay + TimeWithinDay(t)


(***************************************************************************)
(* Strings: sequences of UTF-16 code units.                                *)
(***************************************************************************)
Hyphen == <<45>>

DigitZero == 48

RECURSIVE ToStr(_)
\* String(n) for an integer n >= 0, as a template literal renders it
ToStr(n) ==
    IF n < 10 THEN <<DigitZero + n>>
    ELSE Append(ToStr(n \div 10), DigitZero + (n % 10))

RECURSIVE NumberOf(_)
\* Number(s) for a string of decimal digits (Number("") is 0)
NumberOf(s) ==
    IF s = <<>> THEN 0
    ELSE 10 * NumberOf(SubSeq(s, 1, Len(s) - 1)) + (s[Len(s)] - DigitZero)

RECURSIVE SplitHyphen(_)
\* s.split('-')
SplitHyphen(s) ==
    IF \A i \in 1..Len(s) : s[i] # Hyphen[1] THEN <<s>>
    ELSE LET k == CHOOSE i \in 1..Len(s) :
                      s[i] = Hyphen[1] /\ \A j \in 1..(i - 1) : s[j] # Hyphen[1]
         IN  <<SubSeq(s, 1, k - 1)>> \o SplitHyphen(SubSeq(s, k + 1, Len(s)))

RECURSIVE StrLess(_, _)
\* a < b on strings: by code units, a proper prefix first
StrLess(a, b) ==
    IF b = <<>> THEN FALSE
    ELSE IF a = <<>> THEN TRUE
    ELSE IF a[1] # b[1] THEN a[1] < b[1]
    ELSE StrLess(Tail(a), Tail(b))

\* c.toLowerCase() on one code unit (the ASCII letters)
LowerUnit(c) == IF c >= 65 /\ c <= 90 THEN c + 32 ELSE c

toLowerCase(s) == [i \in 1..Len(s) |-> LowerUnit(s[i])]

\* `${y}-${m}`
MonthKey(y, m) == ToStr(y) \o Hyphen \o ToStr(m)

Range(s) == {s[i] : i \in 1..Len(s)}

\* SetAdd on a list: the key is appended even when it is present
SetAdd_Append(s, x) == Append(s, x)

\* Set.prototype.add on a Set kept as its insertion-ordered sequence
SetAdd(s, x) == IF x \in Range(s) THEN s ELSE Append(s, x)

RECURSIVE InsertSorted(_, _)
InsertSorted(sorted, x) ==
    IF sorted = <<>> THEN <<x>>
    ELSE IF StrLess(x, sorted[1]) THEN <<x>> \o sorted
    ELSE <<sorted[1]>> \o InsertSorted(Tail(sorted), x)

RECURSIVE SortStrings(_)
\* [...set].sort(): the default comparator orders by the elements' strings
SortStrings(s) ==
    IF s = <<>> THEN <<>>
    ELSE InsertSorted(SortStrings(SubSeq(s, 1, Len(s) - 1)), s[Len(s)])

(***************************************************************************)
(* handleStats: the window of a period type at the instant `now`.          *)
(***************************************************************************)
PeriodTypes == {"daily", "weekly", "monthly", "yearly"}

\* WeekDiff without the case of Sunday
WeekDiff_SundayAsZero(now) == getUTCDay(now) - 1

\* the Monday offset of the weekly branch
WeekDiff(now) == IF getUTCDay(now) = 0 THEN 6 ELSE getUTCDay(now) - 1

WeekStart(now) == setUTCDate(now, getUTCDate(now) - WeekDiff(now))

PeriodStartOf(periodType, now) ==
    CASE periodType = "daily" ->
            DateUTC(getUTCFullYear(now), getUTCMonth(now), getUTCDate(now), 0, 0, 0)
      [] periodType = "weekly" ->
            DateUTC(getUTCFullYear(WeekStart(now)), getUTCMonth(WeekStart(now)),
                    getUTCDate(WeekStart(now)), 0, 0, 0)
      [] periodType = "monthly" ->
            DateUTC(getUTCFullYear(now), getUTCMonth(now), 1, 0, 0, 0)
      [] periodType = "yearly" ->
            DateUTC(getUTCFullYear(now), 0, 1, 0, 0, 0)

\* PeriodEndOf whose monthly branch takes day 0 of the current month
PeriodEndOf_MonthNotAdvanced(periodType, now) ==
    CASE periodType \in {"daily", "weekly"} ->
            DateUTC(getUTCFullYear(now), getUTCMonth(now), getUTCDate(now), 23, 59, 59)
      [] periodType = "monthly" ->
            DateUTC(getUTCFullYear(now), getUTCMonth(now), 0, 23, 59, 59)
      [] periodType = "yearly" ->
            DateUTC(getUTCFullYear(now), 11, 31, 23, 59, 59)

PeriodEndOf(periodType, now) ==
    CASE periodType = "daily" ->
            DateUTC(getUTCFullYear(now), getUTCMonth(now), getUTCDate(now), 23, 59, 59)
      [] periodType = "weekly" ->
            DateUTC(getUTCFullYear(now), getUTCMonth(now), getUTCDate(now), 23, 59, 59)
      [] periodType = "monthly" ->
            DateUTC(getUTCFullYear(now), getUTCMonth(now) + 1, 0, 23, 59, 59)
      [] periodType = "yearly" ->
            DateUTC(getUTCFullYear(now), 11, 31, 23, 59, 59)

(***************************************************************************)
(* getStats, first part: the month buckets to fetch.                       *)
(***************************************************************************)
\* PrevMonthKey that subtracts one from the month number within the year
PrevMonthKey_SameYear(startYear, startMonth) == MonthKey(startYear, startMonth - 1)

\* the key of the month before periodStart's month (startMonth is 1-based)
PrevMonthKey(startYear, startMonth) ==
    LET prevDate == DateUTC(startYear, startMonth - 2, 1, 0, 0, 0)
    IN  MonthKey(getUTCFullYear(prevDate), getUTCMonth(prevDate) + 1)

RECURSIVE YearlyLoop(_, _, _)
\* while (iter <= periodEnd) { add(key of iter); iter.setUTCMonth(month + 1) }
YearlyLoop(months, iter, periodEnd) ==
    IF iter <= periodEnd
    THEN YearlyLoop(SetAdd(months, MonthKey(getUTCFullYear(iter), getUTCMonth(iter) + 1)),
                    setUTCMonth(iter, getUTCMonth(iter) + 1), periodEnd)
    ELSE months

\* PeriodMonths that adds periodStart's month alone for a week
PeriodMonths_StartMonthOnly(months, periodStart, periodEnd, periodType) ==
    IF periodType \in {"daily", "weekly", "monthly"}
    THEN SetAdd(months, MonthKey(getUTCFullYear(periodStart), getUTCMonth(periodStart) + 1))
    ELSE IF periodType = "yearly"
    THEN YearlyLoop(SetAdd(months, ToStr(getUTCFullYear(periodStart) - 1) \o Hyphen \o ToStr(12)),
                    DateUTC(getUTCFullYear(periodStart), 0, 1, 0, 0, 0), periodEnd)
    ELSE months

\* the months the period type adds to the set that holds the previous month
PeriodMonths(months, periodStart, periodEnd, periodType) ==
    LET startMonth == getUTCMonth(periodStart) + 1
        startYear  == getUTCFullYear(periodStart)
        endMonth   == getUTCMonth(periodEnd) + 1
        endYear    == getUTCFullYear(periodEnd)
    IN  IF periodType \in {"daily", "weekly", "monthly"}
        THEN LET withStart == SetAdd(months, MonthKey(startYear, startMonth))
             IN  IF periodType = "weekly" /\ startMonth # endMonth
                 THEN SetAdd(withStart, MonthKey(endYear, endMonth))
                 ELSE withStart
        ELSE IF periodType = "yearly"
        THEN YearlyLoop(SetAdd(months, ToStr(startYear - 1) \o Hyphen \o ToStr(12)),
                        DateUTC(startYear, 0, 1, 0, 0, 0), periodEnd)
        ELSE months

\* NotFutureMonth that compares the years alone
NotFutureMonth_YearOnly(m, now) ==
    IF NumberOf(SplitHyphen(m)[1]) > getUTCFullYear(now) THEN FALSE ELSE TRUE

\* the filter's predicate: the month m is not after the month of now
NotFutureMonth(m, now) ==
    LET y   == NumberOf(SplitHyphen(m)[1])
        mon == NumberOf(SplitHyphen(m)[2])
    IN  IF y > getUTCFullYear(now) THEN FALSE
        ELSE IF y = getUTCFullYear(now) /\ mon > getUTCMonth(now) + 1 THEN FALSE
        ELSE TRUE

RemoveFuture(months, now) == SelectSeq(months, LAMBDA m : NotFutureMonth(m, now))

\* monthsToFetch as the fetch loop iterates it
ResolveMonths(periodStart, periodEnd, periodType, now) ==
    LET prev == <<PrevMonthKey(getUTCFullYear(periodStart), getUTCMonth(periodStart) + 1)>>
    IN  SortStrings(RemoveFuture(PeriodMonths(prev, periodStart, periodEnd, periodType), now))

(***************************************************************************)
(* getStats, last part: the aggregation of the merged games.               *)
(* A game is [end_time, time_class, white, black], a player is             *)
(* [username, rating].  A rating that is null is <<>>, a rating r is <<r>>.*)
(***************************************************************************)
Null == <<>>

Modes == <<"rapid", "blitz", "bullet">>

ModeSet == Range(Modes)

\* InPeriod with the end of the window left out
InPeriod_ExclusiveEnd(g, periodStart, periodEnd) ==
    g.end_time >= periodStart /\ g.end_time < periodEnd

\* the filter of gamesInPeriod: both ends inclusive
InPeriod(g, periodStart, periodEnd) ==
    g.end_time >= periodStart /\ g.end_time <= periodEnd

GamesInPeriod(games, periodStart, periodEnd) ==
    SelectSeq(games, LAMBDA g : InPeriod(g, periodStart, periodEnd))

RECURSIVE InsertByEndTime(_, _)
\* x goes after every element that does not end later (the sort is stable)
InsertByEndTime(sorted, x) ==
    IF sorted = <<>> THEN <<x>>
    ELSE IF x.end_time - sorted[1].end_time < 0 THEN <<x>> \o sorted
    ELSE <<sorted[1]>> \o InsertByEndTime(Tail(sorted), x)

\* SortByEndTime that leaves the games in fetch order
SortByEndTime_FetchOrder(games) == games

RECURSIVE SortByEndTime(_)
\* allGames.sort((a, b) => a.end_time - b.end_time)
SortByEndTime(games) ==
    IF games = <<>> THEN <<>>
    ELSE InsertByEndTime(SortByEndTime(SubSeq(games, 1, Len(games) - 1)), games[Len(games)])

\* white's rating when white is the user (case-insensitively), else black's
SubjectRating(g, username) ==
    IF toLowerCase(g.white.username) = toLowerCase(username)
    THEN g.white.rating
    ELSE g.black.rating

\* allGames.filter(mode and before periodStart): what .pop() then takes
GamesBefore(games, mode, periodStart) ==
    SelectSeq(games, LAMBDA g : g.time_class = mode /\ g.end_time < periodStart)

\* the first loop: the start rating from the last game before the period
StartFromBefore(games, mode, periodStart, username) ==
    LET before == GamesBefore(games, mode, periodStart)
    IN  IF before = <<>> THEN Null
        ELSE <<SubjectRating(before[Len(before)], username)>>

ModeGames(gamesInPeriod, mode) ==
    SelectSeq(gamesInPeriod, LAMBDA g : g.time_class = mode)

\* the second loop: the end rating from the last element of modeGames
EndRatingOf(modeGames, username) ==
    IF Len(modeGames) > 0
    THEN <<SubjectRating(modeGames[Len(modeGames)], username)>>
    ELSE Null

\* the second loop: the start rating falls back to modeGames[0]
StartRatingOf(fromBefore, modeGames, username) ==
    IF fromBefore = Null
    THEN IF modeGames # <<>> THEN <<SubjectRating(modeGames[1], username)>> ELSE Null
    ELSE fromBefore

\* lines 304-357: gamesInPeriod is filtered from allGames before allGames is sorted
Aggregate(username, games, periodStart, periodEnd) ==
    LET gamesInPeriod == GamesInPeriod(games, periodStart, periodEnd)
        sorted        == SortByEndTime(games)
    IN  [ stats         |-> [m \in ModeSet |->
                                [count |-> Len(ModeGames(gamesInPeriod, m))]],
          startRatings  |-> [m \in ModeSet |->
                                StartRatingOf(StartFromBefore(sorted, m, periodStart, username),
                                              ModeGames(gamesInPeriod, m), username)],
          endRatings    |-> [m \in ModeSet |->
                                EndRatingOf(ModeGames(gamesInPeriod, m), username)],
          gamesInPeriod |-> gamesInPeriod,
          allGames      |-> sorted ]

(***************************************************************************)
(* The environment: the chat user's argument, the clock and the archive.   *)
(***************************************************************************)
\* args[0] of the command: "a" or "A"
Args == {<<97>>, <<65>>}

\* the participants of a game the user played: as white (the archive spells
\* the name in another case) and as black
UserSides ==
    { [white |-> [username |-> <<65>>, rating |-> 1500],
       black |-> [username |-> <<98>>, rating |-> 1400]],
      [white |-> [username |-> <<98>>, rating |-> 1410],
       black |-> [username |-> <<97>>, rating |-> 1520]] }

\* the participants of a game the user did not play
ForeignSides ==
    { [white |-> [username |-> <<98>>, rating |-> 1420],
       black |-> [username |-> <<99>>, rating |-> 1430]] }

TimeClasses == {"rapid", "blitz", "bullet", "daily"}

\* end times around the two ends of the window
WindowTimes(periodStart, periodEnd) ==
    {periodStart - SecPerDay, periodStart - 1, periodStart, periodEnd, periodEnd + 1}

\* first and last second of the month a bucket (year and month as strings) names
BucketFirst(year, month) == DateUTC(NumberOf(year), NumberOf(month) - 1, 1, 0, 0, 0)

BucketLast(year, month) == DateUTC(NumberOf(year), NumberOf(month), 1, 0, 0, 0) - 1

\* a chronological list
Chronological(games) ==
    \A i \in 1..Len(games) : \A j \in i..Len(games) : games[i].end_time <= games[j].end_time

\* noon of the reference dates (year, month, day) of the aggregation
\* specifications: a Wednesday whose week began in the year before
AggDates == {<<2025, 1, 1>>}

AggClocks == {DateUTC(d[1], d[2] - 1, d[3], 12, 0, 0) : d \in AggDates}

\* a Friday whose week began in the month before, and a day in March
ArchiveDates == {<<2025, 10, 3>>, <<2024, 3, 1>>}

ArchiveClocks == {DateUTC(d[1], d[2] - 1, d[3], 12, 0, 0) : d \in ArchiveDates}

\* every day of the modelled years, at its first and at its last second
AllClocks ==
    UNION { UNION { { DateUTC(y, m - 1, d, 0, 0, 0), DateUTC(y, m - 1, d, 23, 59, 59) } :
                        d \in 1..DaysInMonth(y, m) } :
                <<y, m>> \in (FirstYear..LastYear) \X (1..12) }

\* seconds that may pass between the clock reads of handleStats and getStats;
\* only the calendar fields of the second read are used, and they differ from
\* the first read's only when the day ends in between
Ticks(t) == IF TimeWithinDay(t) = SecPerDay - 1 THEN {0, 1} ELSE {0}

VARIABLES
    clock,          \* the wall clock
    archiveLimit,   \* how many game records the archive serves to one request
    wellFormed,     \* the archive serves each month its own games, oldest first
    sides,          \* the participants of the games the archive holds
    pc,             \* "idle", "fetching", "done", "failed", "usage"
    username,       \* handleStats: args[0].toLowerCase()
    periodType,
    periodStart,
    periodEnd,
    now,            \* the clock as getStats read it
    monthsToFetch,  \* as the fetch loop iterates it
    idx,            \* position of the bucket being fetched
    hung,           \* the pending fetch will never settle
    fetchLog,       \* the (year, month) arguments of the fetches made, the
                    \* pending one included
    served,         \* the games of the successful responses, in fetch order
    allGames,
    result,         \* what getStats returned
    reply,          \* what handleStats said: "none", "usage", "stats", "error"
    bannedUsers,    \* the array of banned.json
    joinedChannels, \* the array of channels.json
    recentPending,  \* the calls of handleRecent that await getLastGame
    joinPending,    \* the calls of commands.join that await client.join
    leavingPending, \* the calls of commands.removeburger that await client.say
    partPending,    \* the calls of commands.removeburger that await client.part
    lastMsg,        \* tags.username, self and commandName of the message the
                    \* last step called the listener with; NoMessage after a
                    \* step that handled no message
    said            \* what the other commands said last, "none" when the
                    \* message just received had no answer

\* one request for statistics and its environment
statsVars == <<clock, archiveLimit, wellFormed, sides, pc, username, periodType, periodStart,
               periodEnd, now, monthsToFetch, idx, hung, fetchLog, served, allGames,
               result, reply>>

\* what the chat commands keep
chatVars == <<bannedUsers, joinedChannels, recentPending, joinPending, leavingPending,
              partPending>>

\* the message being handled
msgVars == <<lastMsg, said>>

vars == <<statsVars, chatVars, msgVars>>

NoMessage == [username |-> <<>>, self |-> FALSE, commandName |-> <<>>]

NoResult == [ stats         |-> [m \in ModeSet |-> [count |-> 0]],
              startRatings  |-> [m \in ModeSet |-> Null],
              endRatings    |-> [m \in ModeSet |-> Null],
              gamesInPeriod |-> <<>>,
              allGames      |-> <<>> ]

InitRequest ==
    /\ pc = "idle"
    /\ username = <<>>
    /\ periodType = "none"
    /\ periodStart = 0
    /\ periodEnd = 0
    /\ now = 0
    /\ monthsToFetch = <<>>
    /\ idx = 0
    /\ hung = FALSE
    /\ fetchLog = <<>>
    /\ served = <<>>
    /\ allGames = <<>>
    /\ result = NoResult
    /\ reply = "none"

\* no banned.json, no channels.json, no message yet
InitChatState ==
    /\ bannedUsers = <<>>
    /\ joinedChannels = <<>>
    /\ recentPending = 0
    /\ joinPending = 0
    /\ leavingPending = 0
    /\ partPending = 0
    /\ lastMsg = NoMessage
    /\ said = "none"

\* the user's games, served by any bucket in any order
Init ==
    /\ clock \in AggClocks
    /\ archiveLimit = MaxGames
    /\ wellFormed = FALSE
    /\ sides = UserSides
    /\ InitRequest
    /\ InitChatState

\* an archive as the game site serves it, which may hold a foreign game
InitArchive ==
    /\ clock \in ArchiveClocks
    /\ archiveLimit = MaxGames
    /\ wellFormed = TRUE
    /\ sides = UserSides \cup ForeignSides
    /\ InitRequest
    /\ InitChatState

\* every reference instant, an archive without games
InitResolver ==
    /\ clock \in AllClocks
    /\ archiveLimit = 0
    /\ wellFormed = TRUE
    /\ sides = UserSides
    /\ InitRequest
    /\ InitChatState

(***************************************************************************)
(* The request.                                                            *)
(***************************************************************************)
\* the games a bucket may serve
ArchiveGames(year, month) ==
    LET times == IF wellFormed
                 THEN {t \in WindowTimes(periodStart, periodEnd) \cup {BucketFirst(year, month)} :
                          BucketFirst(year, month) <= t /\ t <= BucketLast(year, month)}
                 ELSE WindowTimes(periodStart, periodEnd)
    IN  { [end_time |-> t, time_class |-> c, white |-> s.white, black |-> s.black] :
              t \in times, c \in TimeClasses, s \in sides }

\* the game lists a bucket may serve
ArchiveLists(year, month) ==
    { gs \in UNION { [1..k -> ArchiveGames(year, month)] :
                         k \in 0..(archiveLimit - Len(served)) } :
          wellFormed => Chronological(gs) }

\* fetchGamesForMonth: what it returns for the outcome of the fetch.
\*   "ok"          a body whose games field is the list `games`
\*   "network"     fetch rejects
\*   "status"      res.ok is false
\*   "unparsable"  res.json() rejects
\*   "nogames"     the games field is missing or falsy
\*   "notiterable" the games field is a truthy value that cannot be spread
\*                 (a number, true, an object)
\* A games field that is a string, which the caller would spread into its
\* characters, is not among the bodies of this model.
fetchGamesForMonth(outcome, games) ==
    CASE outcome = "ok" -> [iterable |-> TRUE, items |-> games]
      [] outcome \in {"network", "status", "unparsable", "nogames"} ->
            [iterable |-> TRUE, items |-> <<>>]
      [] outcome = "notiterable" -> [iterable |-> FALSE, items |-> <<>>]

\* handleStats: totalGames, the number the reply gives for the period
TotalGames(stats) == Len(stats.gamesInPeriod)

\* getStats from the end of the fetch loop to its return, and handleStats' reply
Finish(games) ==
    /\ result' = Aggregate(username, games, periodStart, periodEnd)
    /\ allGames' = result'.allGames
    /\ pc' = "done"
    /\ reply' = "stats"

\* the arguments of the fetch of the bucket `key`
FetchArgs(key) == [year |-> SplitHyphen(key)[1], month |-> SplitHyphen(key)[2]]

\* handleStats and getStats up to the await of the first fetch, which is made
HandleStats(type, arg, tick) ==
    /\ pc = "idle"
    /\ clock' = clock + tick
    /\ username' = toLowerCase(arg)
    /\ periodType' = type
    /\ periodStart' = PeriodStartOf(type, clock)
    /\ periodEnd' = PeriodEndOf(type, clock)
    /\ now' = clock'
    /\ monthsToFetch' = ResolveMonths(periodStart', periodEnd', type, now')
    /\ IF monthsToFetch' = <<>>
       THEN /\ idx' = 0
            /\ result' = Aggregate(username', <<>>, periodStart', periodEnd')
            /\ pc' = "done"
            /\ reply' = "stats"
            /\ UNCHANGED fetchLog
       ELSE /\ idx' = 1
            /\ fetchLog' = Append(fetchLog, FetchArgs(monthsToFetch'[1]))
            /\ pc' = "fetching"
            /\ UNCHANGED <<result, reply>>
    /\ UNCHANGED <<archiveLimit, wellFormed, sides, hung, served, allGames>>
    /\ UNCHANGED chatVars

\* handleStats without args[0]
HandleStatsNoUser ==
    /\ pc = "idle"
    /\ pc' = "usage"
    /\ reply' = "usage"
    /\ UNCHANGED <<clock, archiveLimit, wellFormed, sides, username, periodType, periodStart,
                   periodEnd, now, monthsToFetch, idx, hung, fetchLog, served,
                   allGames, result>>
    /\ UNCHANGED chatVars

\* the pending fetch settles with `outcome`: the loop body, then the next
\* fetch is made or the games are aggregated
FetchSettles(outcome, games) ==
    LET ret == fetchGamesForMonth(outcome, games)
    IN  /\ pc = "fetching"
        /\ ~hung
        /\ served' = served \o games
        /\ IF ~ret.iterable
           THEN \* allGames.push(...games) throws; handleStats catches
                /\ pc' = "failed"
                /\ reply' = "error"
                /\ UNCHANGED <<idx, fetchLog, allGames, result>>
           ELSE IF idx = Len(monthsToFetch)
           THEN /\ Finish(allGames \o ret.items)
                /\ UNCHANGED <<idx, fetchLog>>
           ELSE /\ allGames' = allGames \o ret.items
                /\ idx' = idx + 1
                /\ fetchLog' = Append(fetchLog, FetchArgs(monthsToFetch[idx + 1]))
                /\ UNCHANGED <<pc, result, reply>>
        /\ UNCHANGED <<clock, archiveLimit, wellFormed, sides, username, periodType,
                       periodStart, periodEnd, now, monthsToFetch, hung>>
        /\ lastMsg' = NoMessage
        /\ UNCHANGED <<chatVars, said>>

CurrentYear == SplitHyphen(monthsToFetch[idx])[1]

CurrentMonth == SplitHyphen(monthsToFetch[idx])[2]

FetchOk ==
    /\ pc = "fetching"
    /\ \E games \in ArchiveLists(CurrentYear, CurrentMonth) : FetchSettles("ok", games)

FetchNetworkError == FetchSettles("network", <<>>)

FetchBadStatus == FetchSettles("status", <<>>)

FetchUnparsable == FetchSettles("unparsable", <<>>)

FetchNoGames == FetchSettles("nogames", <<>>)

FetchNotIterable == FetchSettles("notiterable", <<>>)

\* the server never answers the pending fetch
FetchHangs ==
    /\ pc = "fetching"
    /\ ~hung
    /\ hung' = TRUE
    /\ UNCHANGED <<clock, archiveLimit, wellFormed, sides, pc, username, periodType,
                   periodStart, periodEnd, now, monthsToFetch, idx, fetchLog, served,
                   allGames, result, reply>>
    /\ lastMsg' = NoMessage
    /\ UNCHANGED <<chatVars, said>>

\* the steps of the program once a fetch has settled
Settle ==
    \/ FetchOk
    \/ FetchNetworkError
    \/ FetchBadStatus
    \/ FetchUnparsable
    \/ FetchNoGames
    \/ FetchNotIterable

Next ==
    \/ \E type \in PeriodTypes, arg \in Args, tick \in Ticks(clock) :
          HandleStats(type, arg, tick) /\ UNCHANGED msgVars
    \/ HandleStatsNoUser /\ UNCHANGED msgVars
    \/ Settle
    \/ FetchHangs

Spec == Init /\ [][Next]_vars

SpecArchive == InitArchive /\ [][Next]_vars

SpecResolver == InitResolver /\ [][Next]_vars

\* a fetch that can settle does settle
SpecFair == Init /\ [][Next]_vars /\ WF_vars(Settle)

(***************************************************************************)
(* The chat.  A message is the sender's login, the flag tmi.js sets on the *)
(* bot's own lines, the channel and the words of the text.                 *)
(***************************************************************************)
\* how many calls of one chat command may await together: of handleRecent
\* its getLastGame, of commands.join its client.join, of
\* commands.removeburger its client.say or its client.part
MaxPending == 1

\* process.env.TWITCH_USERNAME: "B"
BotName == <<66>>

\* the login of a user: "a"
User == <<97>>

\* "#a"
Channels == {<<35, 97>>}

\* the keys of `commands`
K_daily == <<100, 97, 105, 108, 121>>
K_weekly == <<119, 101, 101, 107, 108, 121>>
K_monthly == <<109, 111, 110, 116, 104, 108, 121>>
K_yearly == <<121, 101, 97, 114, 108, 121>>
K_recent == <<114, 101, 99, 101, 110, 116>>
K_ban == <<98, 97, 110>>
K_commands == <<99, 111, 109, 109, 97, 110, 100, 115>>
K_unban == <<117, 110, 98, 97, 110>>
K_join == <<106, 111, 105, 110>>
K_removeburger == <<114, 101, 109, 111, 118, 101, 98, 117, 114, 103, 101, 114>>

\* the key "__proto__", which every object literal answers to
K_proto == <<95, 95, 112, 114, 111, 116, 111, 95, 95>>

\* the first words of the messages:
\*   !daily !weekly !monthly !yearly !recent !ban BAN
\*   !commands !unban !join !removeburger !hello !__proto__
FirstWords ==
    { <<33, 100, 97, 105, 108, 121>>,
      <<33, 119, 101, 101, 107, 108, 121>>,
      <<33, 109, 111, 110, 116, 104, 108, 121>>,
      <<33, 121, 101, 97, 114, 108, 121>>,
      <<33, 114, 101, 99, 101, 110, 116>>,
      <<33, 98, 97, 110>>,
      <<66, 65, 78>>,
      <<33, 99, 111, 109, 109, 97, 110, 100, 115>>,
      <<33, 117, 110, 98, 97, 110>>,
      <<33, 106, 111, 105, 110>>,
      <<33, 114, 101, 109, 111, 118, 101, 98, 117, 114, 103, 101, 114>>,
      <<33, 104, 101, 108, 108, 111>>,
      <<33, 95, 95, 112, 114, 111, 116, 111, 95, 95>> }

\* the first words that "A" may follow:
\*   !daily !weekly !monthly !yearly !recent !ban BAN !unban !join
ArgWords ==
    { <<33, 100, 97, 105, 108, 121>>,
      <<33, 119, 101, 101, 107, 108, 121>>,
      <<33, 109, 111, 110, 116, 104, 108, 121>>,
      <<33, 121, 101, 97, 114, 108, 121>>,
      <<33, 114, 101, 99, 101, 110, 116>>,
      <<33, 98, 97, 110>>,
      <<66, 65, 78>>,
      <<33, 117, 110, 98, 97, 110>>,
      <<33, 106, 111, 105, 110>> }

\* message.trim().split(/\s+/): the words of the texts of the user
Texts == {<<w>> : w \in FirstWords} \cup {<<w, <<65>>>> : w \in ArgWords}

\* the words of the texts the account of the bot writes:
\*   !ban A, BAN A, !unban A
BotTexts ==
    { <<<<33, 98, 97, 110>>, <<65>>>>,
      <<<<66, 65, 78>>, <<65>>>>,
      <<<<33, 117, 110, 98, 97, 110>>, <<65>>>> }

\* the messages of the chat: any text of the user, the texts of the bot's
\* account, and "!ban A" as the bot's own client wrote it
Messages ==
    { [username |-> User, self |-> FALSE, channel |-> ch, parts |-> ps] :
          ch \in Channels, ps \in Texts }
    \cup { [username |-> toLowerCase(BotName), self |-> FALSE, channel |-> ch,
            parts |-> ps] : ch \in Channels, ps \in BotTexts }
    \cup { [username |-> toLowerCase(BotName), self |-> TRUE, channel |-> ch,
            parts |-> <<<<33, 98, 97, 110>>, <<65>>>>] : ch \in Channels }

\* String.prototype.replace with a one-character pattern: the first
\* occurrence goes
RECURSIVE RemoveFirst(_, _)
RemoveFirst(str, unit) ==
    IF str = <<>> THEN <<>>
    ELSE IF Head(str) = unit THEN Tail(str)
    ELSE <<Head(str)>> \o RemoveFirst(Tail(str), unit)

\* parts[0].replace(/^!/, '').toLowerCase()
CommandName(m) ==
    LET word == m.parts[1]
    IN  toLowerCase(IF word # <<>> /\ Head(word) = 33 THEN Tail(word) ELSE word)

\* args[0]; an absent one is the empty string, which is as falsy
Arg0(m) == IF Len(m.parts) > 1 THEN m.parts[2] ELSE <<>>

\* Array.prototype.indexOf, counting from 1; 0 when absent
IndexOf(arr, x) ==
    IF x \in Range(arr) THEN CHOOSE i \in 1..Len(arr) :
                                 arr[i] = x /\ \A j \in 1..(i - 1) : arr[j] # x
    ELSE 0

\* Array.prototype.splice(index, 1)
Splice(arr, i) == SubSeq(arr, 1, i - 1) \o SubSeq(arr, i + 1, Len(arr))

\* the listener with the test of the sender left out
IsBanned_Never(name) == FALSE

\* the listener: bannedUsers.includes(tags.username.toLowerCase())
IsBanned(name) == toLowerCase(name) \in Range(bannedUsers)

\* ban, unban: the sender is the account of the bot
IsBot(name) == toLowerCase(name) = toLowerCase(BotName)

\* the listener is called with m
Called(m) ==
    lastMsg' = [username |-> m.username, self |-> m.self, commandName |-> CommandName(m)]

\* the listener up to the lookup of the command
Receives(m, key) ==
    /\ ~m.self
    /\ ~IsBanned(m.username)
    /\ CommandName(m) = key
    /\ Called(m)

\* a handler that returns without a word
Returns ==
    /\ said' = "none"
    /\ UNCHANGED <<statsVars, chatVars>>

\* the listener: a line of the bot itself
OwnMessage(m) ==
    /\ m.self
    /\ Called(m)
    /\ Returns

\* the listener: a line of a banned sender
BannedMessage(m) ==
    /\ ~m.self
    /\ IsBanned(m.username)
    /\ Called(m)
    /\ Returns

\* the listener: no such command
NoCommand(m) ==
    /\ ~m.self
    /\ ~IsBanned(m.username)
    /\ CommandName(m) \notin {K_daily, K_weekly, K_monthly, K_yearly, K_recent, K_ban,
                              K_commands, K_unban, K_join, K_removeburger, K_proto}
    /\ Called(m)
    /\ Returns

\* the listener: commands.__proto__ is an object, the call throws
NotCallable(m) ==
    /\ Receives(m, K_proto)
    /\ said' = "error"
    /\ UNCHANGED <<statsVars, chatVars>>

\* commands.daily .. commands.yearly
StatsCommand(m, key, type) ==
    /\ Receives(m, key)
    /\ said' = "none"
    /\ IF Arg0(m) = <<>>
       THEN HandleStatsNoUser
       ELSE \E tick \in Ticks(clock) : HandleStats(type, Arg0(m), tick)

daily(m) == StatsCommand(m, K_daily, "daily")

weekly(m) == StatsCommand(m, K_weekly, "weekly")

monthly(m) == StatsCommand(m, K_monthly, "monthly")

yearly(m) == StatsCommand(m, K_yearly, "yearly")

\* commands.recent, handleRecent up to the fetch of getLastGame
recent(m) ==
    /\ Receives(m, K_recent)
    /\ IF toLowerCase(Arg0(m)) = <<>>
       THEN /\ said' = "usage"
            /\ UNCHANGED recentPending
       ELSE /\ recentPending < MaxPending
            /\ recentPending' = recentPending + 1
            /\ said' = "none"
    /\ UNCHANGED <<statsVars, bannedUsers, joinedChannels, joinPending, leavingPending,
                   partPending>>

\* getLastGame returns a game or null, handleRecent says which
RecentSettles(found) ==
    /\ recentPending > 0
    /\ recentPending' = recentPending - 1
    /\ said' = IF found THEN "recent" ELSE "norecent"
    /\ lastMsg' = NoMessage
    /\ UNCHANGED <<statsVars, bannedUsers, joinedChannels, joinPending, leavingPending,
                   partPending>>

\* commands.ban
ban(m) ==
    LET userToBan == toLowerCase(Arg0(m))
    IN  /\ Receives(m, K_ban)
        /\ IF ~IsBot(m.username) \/ userToBan = <<>> \/ userToBan \in Range(bannedUsers)
           THEN Returns
           ELSE /\ bannedUsers' = Append(bannedUsers, userToBan)
                /\ said' = "banned"
                /\ UNCHANGED <<statsVars, joinedChannels, recentPending, joinPending,
                               leavingPending, partPending>>

\* commands.unban
unban(m) ==
    LET index == IndexOf(bannedUsers, toLowerCase(Arg0(m)))
    IN  /\ Receives(m, K_unban)
        /\ IF ~IsBot(m.username) \/ index = 0
           THEN Returns
           ELSE /\ bannedUsers' = Splice(bannedUsers, index)
                /\ said' = "unbanned"
                /\ UNCHANGED <<statsVars, joinedChannels, recentPending, joinPending,
                               leavingPending, partPending>>

\* commands.commands
commands(m) ==
    /\ Receives(m, K_commands)
    /\ said' = "commands"
    /\ UNCHANGED <<statsVars, chatVars>>

\* commands.join up to the await of client.join
join(m) ==
    LET targetChannel == IF toLowerCase(Arg0(m)) # <<>> THEN toLowerCase(Arg0(m))
                         ELSE toLowerCase(m.username)
    IN  /\ Receives(m, K_join)
        /\ IF toLowerCase(m.username) # targetChannel
           THEN /\ said' = "ownchannel"
                /\ UNCHANGED <<joinedChannels, joinPending>>
           ELSE IF ~\E i \in 1..Len(joinedChannels) :
                       toLowerCase(joinedChannels[i]) = targetChannel
           THEN /\ joinPending < MaxPending
                /\ joinedChannels' = Append(joinedChannels, targetChannel)
                /\ joinPending' = joinPending + 1
                /\ said' = "none"
           ELSE /\ said' = "already"
                /\ UNCHANGED <<joinedChannels, joinPending>>
        /\ UNCHANGED <<statsVars, bannedUsers, recentPending, leavingPending, partPending>>

\* client.join settles: commands.join says that the bot has joined, or the
\* listener catches the rejection; the channel stays in joinedChannels
JoinSettles(resolved) ==
    /\ joinPending > 0
    /\ joinPending' = joinPending - 1
    /\ said' = IF resolved THEN "joined" ELSE "error"
    /\ lastMsg' = NoMessage
    /\ UNCHANGED <<statsVars, bannedUsers, joinedChannels, recentPending, leavingPending,
                   partPending>>

\* commands.removeburger up to the await of client.say
removeburger(m) ==
    LET chOwner == toLowerCase(RemoveFirst(m.channel, 35))
        index == IndexOf(joinedChannels, chOwner)
    IN  /\ Receives(m, K_removeburger)
        /\ IF toLowerCase(m.username) # chOwner
           THEN Returns
           ELSE /\ IF index # 0
                   THEN /\ leavingPending + partPending < MaxPending
                        /\ joinedChannels' = Splice(joinedChannels, index)
                        /\ leavingPending' = leavingPending + 1
                        /\ said' = "leaving"
                   ELSE /\ said' = "notinchannel"
                        /\ UNCHANGED <<joinedChannels, leavingPending>>
                /\ UNCHANGED <<statsVars, bannedUsers, recentPending, joinPending,
                               partPending>>

\* the client.say of commands.removeburger settles: client.part is called,
\* or the listener catches the rejection
LeavingSettles(resolved) ==
    /\ leavingPending > 0
    /\ leavingPending' = leavingPending - 1
    /\ IF resolved
       THEN /\ partPending' = partPending + 1
            /\ UNCHANGED said
       ELSE /\ said' = "error"
            /\ UNCHANGED partPending
    /\ lastMsg' = NoMessage
    /\ UNCHANGED <<statsVars, bannedUsers, joinedChannels, recentPending, joinPending>>

\* client.part settles: commands.removeburger returns, or the listener
\* catches the rejection; the channel stays out of joinedChannels
PartSettles(resolved) ==
    /\ partPending > 0
    /\ partPending' = partPending - 1
    /\ said' = IF resolved THEN said ELSE "error"
    /\ lastMsg' = NoMessage
    /\ UNCHANGED <<statsVars, bannedUsers, joinedChannels, recentPending, joinPending,
                   leavingPending>>

\* handleStats has returned: its locals go, the next request may come
HandleStatsReturns ==
    /\ pc \in {"done", "failed", "usage"}
    /\ pc' = "idle"
    /\ username' = <<>>
    /\ periodType' = "none"
    /\ periodStart' = 0
    /\ periodEnd' = 0
    /\ now' = 0
    /\ monthsToFetch' = <<>>
    /\ idx' = 0
    /\ fetchLog' = <<>>
    /\ served' = <<>>
    /\ allGames' = <<>>
    /\ result' = NoResult
    /\ reply' = "none"
    /\ lastMsg' = NoMessage
    /\ UNCHANGED <<clock, archiveLimit, wellFormed, sides, hung, chatVars, said>>

\* the bot in a chat, with an archive without games
InitChat ==
    /\ clock \in AggClocks
    /\ archiveLimit = 0
    /\ wellFormed = TRUE
    /\ sides = UserSides
    /\ InitRequest
    /\ InitChatState

NextChat ==
    \/ \E m \in Messages : OwnMessage(m)
    \/ \E m \in Messages : BannedMessage(m)
    \/ \E m \in Messages : NoCommand(m)
    \/ \E m \in Messages : NotCallable(m)
    \/ \E m \in Messages : daily(m)
    \/ \E m \in Messages : weekly(m)
    \/ \E m \in Messages : monthly(m)
    \/ \E m \in Messages : yearly(m)
    \/ \E m \in Messages : recent(m)
    \/ \E found \in BOOLEAN : RecentSettles(found)
    \/ \E m \in Messages : ban(m)
    \/ \E m \in Messages : unban(m)
    \/ \E m \in Messages : commands(m)
    \/ \E m \in Messages : join(m)
    \/ \E resolved \in BOOLEAN : JoinSettles(resolved)
    \/ \E m \in Messages : removeburger(m)
    \/ \E resolved \in BOOLEAN : LeavingSettles(resolved)
    \/ \E resolved \in BOOLEAN : PartSettles(resolved)
    \/ HandleStatsReturns
    \/ Settle
    \/ FetchHangs

SpecChat == InitChat /\ [][NextChat]_vars

(***************************************************************************)
(* Properties.  `served` is the environment's record of the fetched games: *)
(* the games of the successful responses, in the order they arrived.       *)
(***************************************************************************)
\* positions in `served` of the games of class m inside the window
ServedInPeriod(m) ==
    {i \in 1..Len(served) :
        /\ served[i].time_class = m
        /\ periodStart <= served[i].end_time
        /\ served[i].end_time <= periodEnd}

\* positions in `served` of the games of class m before the window
ServedBefore(m) ==
    {i \in 1..Len(served) : served[i].time_class = m /\ served[i].end_time < periodStart}

\* the rating of the requested user in game g, the requested name lowercased
RatingOfUser(g) ==
    IF toLowerCase(g.white.username) = username THEN g.white.rating ELSE g.black.rating

\* C1: endRating of a class is the user's rating in the in-period game of that
\* class with the greatest end time among all fetched games, whatever bucket
\* served it and in whatever order; it is null exactly when the class has no
\* in-period game.
C1_EndRatingOfLatestInPeriodGame ==
    pc = "done" =>
        \A m \in ModeSet :
            IF ServedInPeriod(m) = {}
            THEN result.endRatings[m] = Null
            ELSE \E i \in ServedInPeriod(m) :
                    /\ \A j \in ServedInPeriod(m) : served[j].end_time <= served[i].end_time
                    /\ result.endRatings[m] = <<RatingOfUser(served[i])>>

\* C2: with no game of a class before the window, startRating of the class is
\* the user's rating in the earliest-ending in-period game of the class (null
\* if there is none); with such a game the fallback is not used.
C2_FallbackIsEarliestInPeriodGame ==
    pc = "done" =>
        \A m \in ModeSet :
            IF ServedBefore(m) # {}
            THEN \E i \in ServedBefore(m) : result.startRatings[m] = <<RatingOfUser(served[i])>>
            ELSE IF ServedInPeriod(m) = {}
            THEN result.startRatings[m] = Null
            ELSE \E i \in ServedInPeriod(m) :
                    /\ \A j \in ServedInPeriod(m) : served[i].end_time <= served[j].end_time
                    /\ result.startRatings[m] = <<RatingOfUser(served[i])>>

\* C3: with a game of a class ending strictly before periodStart among the
\* fetched games, startRating of the class is the user's rating (white's when
\* the white name is the requested one case-insensitively, else black's) in
\* one with the greatest end time among them, whatever the fetch order.
C3_StartRatingOfLastGameBefore ==
    pc = "done" =>
        \A m \in ModeSet :
            ServedBefore(m) # {} =>
                \E i \in ServedBefore(m) :
                    /\ \A j \in ServedBefore(m) : served[j].end_time <= served[i].end_time
                    /\ result.startRatings[m] = <<RatingOfUser(served[i])>>

\* C3's case: two games of one class before the window arrived latest first,
\* the user's ratings in them differ, and the later one gave the start rating
C3_Witness ==
    /\ pc = "done"
    /\ \E m \in ModeSet : \E i, j \in ServedBefore(m) :
          /\ i < j
          /\ served[i].end_time > served[j].end_time
          /\ RatingOfUser(served[i]) # RatingOfUser(served[j])
          /\ toLowerCase(served[i].white.username) = username
          /\ served[i].white.username # username
          /\ result.startRatings[m] = <<served[i].white.rating>>

\* how many times the game g occurs in the sequence s
Occurrences(s, g) == Cardinality({i \in 1..Len(s) : s[i] = g})

\* C4: gamesInPeriod holds exactly the fetched games with
\* periodStart <= end time <= periodEnd, each once, and the count of a class
\* is the number of games of that class in gamesInPeriod.
C4_GamesInPeriodIsTheWindow ==
    pc = "done" =>
        /\ \A g \in Range(served) \cup Range(result.gamesInPeriod) :
              Occurrences(result.gamesInPeriod, g) =
                 IF periodStart <= g.end_time /\ g.end_time <= periodEnd
                 THEN Occurrences(served, g)
                 ELSE 0
        /\ \A m \in ModeSet :
              result.stats[m].count =
                 Cardinality({i \in 1..Len(result.gamesInPeriod) :
                                 result.gamesInPeriod[i].time_class = m})

\* C4's case: games on both ends of the window are kept, games one second
\* outside it are dropped
C4_Witness ==
    /\ pc = "done"
    /\ \E i, j \in 1..Len(served) :
          /\ served[i].end_time \in {periodStart, periodEnd}
          /\ served[j].end_time \in {periodStart - 1, periodEnd + 1}
          /\ served[i] \in Range(result.gamesInPeriod)
          /\ served[j] \notin Range(result.gamesInPeriod)
          /\ Len(result.gamesInPeriod) = 1

\* C5: whatever the outcomes of the bucket fetches (success, network error,
\* non-success status, unparsable body, a games field that is no list),
\* getStats returns without raising: every bucket is fetched, a failed bucket
\* adds no game and the games of the successful buckets are all merged.
C5_FetchFailuresAreAbsorbed ==
    /\ pc # "failed"
    /\ pc = "done" =>
          /\ Len(fetchLog) = Len(monthsToFetch)
          /\ \A g \in Range(served) \cup Range(allGames) :
                Occurrences(allGames, g) = Occurrences(served, g)

\* C6: a bucket fetch that never responds is eventually abandoned, so that
\* getStats eventually returns.
C6_HangingFetchIsAbandoned == hung ~> (pc \in {"done", "failed"})

\* the requested user is one of the two players of g
UserPlays(g) ==
    \/ toLowerCase(g.white.username) = username
    \/ toLowerCase(g.black.username) = username

\* the games whose rating the two loops of the aggregation read for class m
ExtractionGames(m) ==
    LET before    == GamesBefore(result.allGames, m, periodStart)
        modeGames == ModeGames(result.gamesInPeriod, m)
    IN  (IF before # <<>> THEN {before[Len(before)]} ELSE {})
        \cup (IF modeGames # <<>> THEN {modeGames[Len(modeGames)]} ELSE {})
        \cup (IF before = <<>> /\ modeGames # <<>> THEN {modeGames[1]} ELSE {})

\* C7: when a game used for rating extraction has neither player equal to the
\* requested user (case-insensitively), the request fails instead of
\* returning a rating of one of the players.
C7_ForeignGameFailsTheRequest ==
    pc = "done" => \A m \in ModeSet : \A g \in ExtractionGames(m) : UserPlays(g)

(***************************************************************************)
(* Properties of the resolved buckets, as (year, month) numbers.           *)
(***************************************************************************)
Bucket(key) == <<NumberOf(SplitHyphen(key)[1]), NumberOf(SplitHyphen(key)[2])>>

Resolved == {Bucket(monthsToFetch[i]) : i \in 1..Len(monthsToFetch)}

Fetched == {<<NumberOf(fetchLog[i].year), NumberOf(fetchLog[i].month)>> : i \in 1..Len(fetchLog)}

\* months counted from year 0, to compare buckets
MonthNumber(b) == b[1] * 12 + b[2]

Requested == pc \in {"fetching", "done", "failed"}

\* the month (y, m) has an instant in [periodStart, periodEnd]
OverlapsWindow(y, m) ==
    /\ DayFromYear(y) * SecPerDay + DaysBeforeMonth(y, m) * SecPerDay <= periodEnd
    /\ (DayFromYear(y) + DaysBeforeMonth(y, m) + DaysInMonth(y, m)) * SecPerDay > periodStart

StartBucket == <<getUTCFullYear(periodStart), getUTCMonth(periodStart) + 1>>

EndBucket == <<getUTCFullYear(periodEnd), getUTCMonth(periodEnd) + 1>>

NowBucket == <<getUTCFullYear(now), getUTCMonth(now) + 1>>

\* C8: every month that overlaps the window and is not after the month of now
\* is among the buckets fetched: periodStart's month for daily and monthly,
\* also periodEnd's month for weekly, January through the last month not
\* after now for yearly.
C8_WindowMonthsAreFetched ==
    Requested =>
        LET start    == StartBucket
            end      == EndBucket
            nowMonth == MonthNumber(NowBucket)
            resolved == Resolved
        IN  /\ \A y \in (start[1] - 1)..(end[1] + 1) : \A m \in 1..12 :
                  (MonthNumber(<<y, m>>) <= nowMonth /\ OverlapsWindow(y, m))
                      => <<y, m>> \in resolved
            /\ periodType \in {"daily", "weekly", "monthly"} => start \in resolved
            /\ periodType = "weekly" => end \in resolved
            /\ periodType = "yearly" =>
                  \A m \in 1..12 :
                      MonthNumber(<<start[1], m>>) <= nowMonth => <<start[1], m>> \in resolved
            /\ pc = "done" => resolved \subseteq Fetched

\* C8's case: a week that began in December of the year before
C8_Witness ==
    /\ pc = "done"
    /\ periodType = "weekly"
    /\ StartBucket[2] = 12
    /\ EndBucket = <<StartBucket[1] + 1, 1>>
    /\ {StartBucket, EndBucket} \subseteq Fetched

\* the calendar month before periodStart's month
PrevBucket ==
    IF StartBucket[2] = 1 THEN <<StartBucket[1] - 1, 12>>
    ELSE <<StartBucket[1], StartBucket[2] - 1>>

\* C9: the resolved buckets hold the month before periodStart's month exactly
\* once; for a periodStart in January it is December of the year before, and
\* no bucket has a month outside 1..12.
C9_PreviousMonthIsFetchedOnce ==
    Requested =>
        /\ Cardinality({i \in 1..Len(monthsToFetch) : Bucket(monthsToFetch[i]) = PrevBucket}) = 1
        /\ \A b \in Resolved : b[2] \in 1..12
        /\ pc = "done" =>
              Cardinality({i \in 1..Len(fetchLog) :
                              <<NumberOf(fetchLog[i].year), NumberOf(fetchLog[i].month)>>
                                  = PrevBucket}) = 1

\* C9's case: periodStart is in January and December of the year before was fetched
C9_Witness ==
    /\ pc = "done"
    /\ periodType \in {"daily", "weekly", "monthly"}
    /\ StartBucket[2] = 1
    /\ <<StartBucket[1] - 1, 12>> \in Fetched
    /\ \A b \in Fetched : b[1] = StartBucket[1] => b[2] >= 1

\* C10: no fetched bucket is after the month of now (the clock as getStats
\* read it); a yearly request fetches no later month of the current year.
C10_NoFutureBucketIsFetched ==
    /\ \A b \in Fetched : MonthNumber(b) <= MonthNumber(NowBucket)
    /\ Requested => \A b \in Resolved : MonthNumber(b) <= MonthNumber(NowBucket)

\* C10's case: a yearly request before December has fetched the December
\* before and January through the month of now, and nothing else
C10_Witness ==
    /\ pc = "done"
    /\ periodType = "yearly"
    /\ NowBucket[1] = StartBucket[1]
    /\ NowBucket[2] < 12
    /\ EndBucket[2] = 12
    /\ Fetched = {<<NowBucket[1] - 1, 12>>} \cup {<<NowBucket[1], m>> : m \in 1..NowBucket[2]}

\* C11: within one request each (year, month) bucket is fetched at most
\* once, also when more than one rule asks for it (the month before
\* periodStart and the December before a yearly window).
C11_EachBucketIsFetchedOnce ==
    /\ \A i, j \in 1..Len(fetchLog) :
          (NumberOf(fetchLog[i].year) = NumberOf(fetchLog[j].year)
              /\ NumberOf(fetchLog[i].month) = NumberOf(fetchLog[j].month)) => i = j
    /\ \A i, j \in 1..Len(monthsToFetch) :
          Bucket(monthsToFetch[i]) = Bucket(monthsToFetch[j]) => i = j

\* C11's case: a yearly request, whose two rules both ask for the December
\* before, has fetched it, and as many buckets as there are distinct ones
C11_Witness ==
    /\ pc = "done"
    /\ periodType = "yearly"
    /\ PrevBucket = <<StartBucket[1] - 1, 12>>
    /\ PrevBucket \in Fetched
    /\ Len(fetchLog) = Cardinality(Fetched)

\* C12: the number of games reported for the period is the sum of the rapid,
\* blitz and bullet counts: a game of another class is counted neither in a
\* class nor in gamesInPeriod.
C12_TotalIsSumOfClassCounts ==
    pc = "done" =>
        /\ TotalGames(result) =
              result.stats["rapid"].count + result.stats["blitz"].count
                  + result.stats["bullet"].count
        /\ \A g \in Range(result.gamesInPeriod) : g.time_class \in ModeSet

\* C13: the weekly window begins at 00:00:00 of the latest Monday on or
\* before the reference day and ends at 23:59:59 of the reference day.
C13_WeekBeginsOnMonday ==
    [][(pc = "idle" /\ pc' # "usage" /\ periodType' = "weekly") =>
          /\ TimeWithinDay(periodStart') = 0
          /\ getUTCDay(periodStart') = 1
          /\ Day(periodStart') <= Day(clock)
          /\ Day(clock) - Day(periodStart') <= 6
          /\ (getUTCDay(clock) = 1 => Day(periodStart') = Day(clock))
          /\ (getUTCDay(clock) = 0 => Day(periodStart') = Day(clock) - 6)
          /\ periodEnd' = Day(clock) * SecPerDay + (SecPerDay - 1)]_vars

\* C13's case: a request on a Sunday whose week began in the year before
C13_Witness ==
    /\ periodType = "weekly"
    /\ pc = "done"
    /\ getUTCDay(periodEnd) = 0
    /\ getUTCFullYear(periodStart) = getUTCFullYear(periodEnd) - 1
    /\ Day(periodEnd) - Day(periodStart) = 6

\* C14: the window of every period type has periodStart <= periodEnd.
C14_WindowIsOrdered ==
    Requested => (periodType \in PeriodTypes /\ periodStart <= periodEnd)

\* C14's case: a monthly window asked for on the last day of a February
C14_Witness ==
    /\ pc = "done"
    /\ periodType = "monthly"
    /\ getUTCMonth(periodStart) = 1
    /\ Day(now) = Day(periodEnd)
    /\ periodEnd - periodStart = DaysInMonth(getUTCFullYear(periodStart), 2) * SecPerDay - 1

\* C15: the aggregation run again on the collection as the first run left it,
\* with the same user and window, gives the same counts, start ratings, end
\* ratings and gamesInPeriod.
C15_AggregationIsIdempotent ==
    pc = "done" =>
        LET again == Aggregate(username, allGames, periodStart, periodEnd)
        IN  /\ again.stats = result.stats
            /\ again.startRatings = result.startRatings
            /\ again.endRatings = result.endRatings
            /\ again.gamesInPeriod = result.gamesInPeriod

\* C16: a message whose sender is in bannedUsers when it is received runs
\* no command: nothing is said, no fetch is made, no request or list changes;
\* and bannedUsers changes only in the handling of a ban or unban message
\* whose sender is the account of the bot.
C16_BannedSenderRunsNothing ==
    [][/\ (lastMsg' # NoMessage /\ lastMsg'.username \in Range(bannedUsers)) =>
              (said' = "none" /\ UNCHANGED <<statsVars, chatVars>>)
       /\ (bannedUsers' # bannedUsers) =>
              /\ lastMsg' # NoMessage
              /\ lastMsg'.commandName \in {K_ban, K_unban}
              /\ toLowerCase(lastMsg'.username) = toLowerCase(BotName)]_vars

\* C16's case: while a request awaits its fetch, the bot's account has
\* banned a user, and a request for statistics of that user has come since
C16_Witness ==
    /\ pc = "fetching"
    /\ bannedUsers # <<>>
    /\ lastMsg.username \in Range(bannedUsers)
    /\ ~lastMsg.self
    /\ lastMsg.commandName \in {K_daily, K_weekly, K_monthly, K_yearly}
    /\ said = "none"
    /\ idx = 1
    /\ fetchLog = <<FetchArgs(monthsToFetch[1])>>

=============================================================================
